---- MODULE Spec2Model ----
(***************************************************************************)
(* cliexpect: a background reader drains an io.Reader into a lock-guarded  *)
(* buffer and posts one notification per read; Retrieve waits, under a     *)
(* cumulative timeout, until the buffer holds a body followed by a prompt  *)
(* line, consumes it and keeps the rest; Expect retrieves first and then   *)
(* matches the user pattern against the retrieved body only.               *)
(*                                                                         *)
(* Text is a sequence of one-character strings.  Offsets are Go offsets    *)
(* (0-based, end exclusive).                                               *)
(***************************************************************************)
EXTENDS Integers, Sequences, FiniteSets, TLC

(***************************************************************************)
(* Bounds of the model.                                                    *)
(***************************************************************************)
\* Largest number of bytes the read source delivers in one behaviour.
MaxStream == 3
\* param.Timeout, in clock ticks (validateParams keeps it >= 1).
Timeout == 2
\* Largest lateness, in ticks, of time.Since(t) after a receive in waitForData.
MaxLate == 1
\* Largest number of reads that return no byte and no error.
MaxEmpty == 1
\* Largest number of Retrieve and Expect calls the caller makes.
MaxCalls == 2
\* Largest number of SendBytes, Send and SendLine calls made.
MaxSends == 1
\* Largest content of a read source that delivers its content in one read.
MaxData == 4

(***************************************************************************)
(* Characters.                                                             *)
(***************************************************************************)
NL == "\n"
Alphabet == {"#", NL}
\* `.` under the s flag
Dot == Alphabet
\* \S
NonSpace == Alphabet \ {NL}
\* [^\n]
NotNL == Alphabet \ {NL}

(***************************************************************************)
(* Errors carried by notifications and returned by calls.                  *)
(***************************************************************************)
Nil == "nil"
EOF == "EOF"
BadRead == "Bad read"
ErrTimeout == "Read timed out"
ErrNoMatches == "No matches"

(***************************************************************************)
(* Compiled regular expressions: a sequence of nodes, matched the way the  *)
(* regexp package matches (leftmost start, then the first alternative a    *)
(* backtracking search finds), under the flags m (^ and $ at line          *)
(* boundaries) and s (. matches newline).                                  *)
(***************************************************************************)
Cls(cs) == [t |-> "cls", cs |-> cs, min |-> 1, greedy |-> TRUE, k |-> 0]
Rep(cs, min, greedy) == [t |-> "rep", cs |-> cs, min |-> min, greedy |-> greedy, k |-> 0]
Bol == [t |-> "bol", cs |-> {}, min |-> 0, greedy |-> TRUE, k |-> 0]
Eol == [t |-> "eol", cs |-> {}, min |-> 0, greedy |-> TRUE, k |-> 0]
Open(k) == [t |-> "open", cs |-> {}, min |-> 0, greedy |-> TRUE, k |-> k]
Close(k) == [t |-> "close", cs |-> {}, min |-> 0, greedy |-> TRUE, k |-> k]
\* (c)? : the optional capture group k around one character of cs
Opt(k, cs) == [t |-> "opt", cs |-> cs, min |-> 0, greedy |-> TRUE, k |-> k]

\* The number of capture groups of a compiled expression.
NumSubexp(re) == Cardinality({i \in 1..Len(re) : re[i].t \in {"open", "opt"}})

RECURSIVE MatchAt(_, _, _, _)
\* The nodes matched against s from offset i, with the capture offsets so far;
\* the capture offsets of the first match in backtracking order, or << >>.
MatchAt(nodes, s, i, caps) ==
    IF nodes = << >> THEN [caps EXCEPT ![2] = i]
    ELSE LET h == Head(nodes)
             rest == Tail(nodes)
             here == i < Len(s) /\ s[i + 1] \in h.cs
         IN CASE h.t = "cls" ->
                     IF here THEN MatchAt(rest, s, i + 1, caps) ELSE << >>
              [] h.t = "bol" ->
                     IF i = 0 \/ s[i] = NL THEN MatchAt(rest, s, i, caps) ELSE << >>
              [] h.t = "eol" ->
                     IF i = Len(s) \/ s[i + 1] = NL
                     THEN MatchAt(rest, s, i, caps) ELSE << >>
              [] h.t = "open" ->
                     MatchAt(rest, s, i, [caps EXCEPT ![2 * h.k + 1] = i])
              [] h.t = "close" ->
                     MatchAt(rest, s, i, [caps EXCEPT ![2 * h.k + 2] = i])
              [] h.t = "opt" ->
                     LET taken == IF here
                                  THEN MatchAt(rest, s, i + 1,
                                               [caps EXCEPT ![2 * h.k + 1] = i,
                                                            ![2 * h.k + 2] = i + 1])
                                  ELSE << >>
                     IN IF taken # << >> THEN taken ELSE MatchAt(rest, s, i, caps)
              [] h.t = "rep" ->
                     LET more == IF here
                                 THEN MatchAt(<<[h EXCEPT !.min = 0]>> \o rest, s, i + 1, caps)
                                 ELSE << >>
                         stop == IF h.min = 0 THEN MatchAt(rest, s, i, caps) ELSE << >>
                     IN IF h.min > 0 THEN more
                        ELSE IF h.greedy
                             THEN (IF more # << >> THEN more ELSE stop)
                             ELSE (IF stop # << >> THEN stop ELSE more)

RECURSIVE FindFrom(_, _, _)
FindFrom(re, s, i) ==
    LET caps == [j \in 1..(2 * (NumSubexp(re) + 1)) |-> IF j = 1 THEN i ELSE -1]
        r == MatchAt(re, s, i, caps)
    IN IF r # << >> THEN r
       ELSE IF i < Len(s) THEN FindFrom(re, s, i + 1) ELSE << >>

\* regexp.FindStringSubmatchIndex: the offsets of the leftmost match and of its
\* groups (-1, -1 for a group that took no part), or << >> (nil) for no match.
FindStringSubmatchIndex(re, s) == FindFrom(re, s, 0)

(***************************************************************************)
(* Program constants and the patterns of the sessions checked.  A pattern  *)
(* is its source text; a Matcher is the source text its closure compiled.  *)
(***************************************************************************)
defaultBuffSize == 16384
readBuffSize == defaultBuffSize

\* All texts of at most n characters.
RECURSIVE Texts(_)
Texts(n) ==
    IF n = 0 THEN {<< >>}
    ELSE LET shorter == Texts(n - 1)
         IN shorter \cup {Append(t, c) : t \in {u \in shorter : Len(u) = n - 1}, c \in Alphabet}

\* The chunks a read can return when n more bytes may be delivered.
Chunks == [n \in 0..MaxStream |-> Texts(n)]

matchFmt == "(?ms)"
defaultPromptRegex == "\\S+"

\* fmt.Sprintf(retrieveRegex, re), retrieveRegex = (.*?)(^%s$)
retrieveRegex(re) == "(.*?)(^" \o re \o "$)"

\* fmt.Sprintf(`\Q%s\E`, str)
Quoted(str) == "\\Q" \o str \o "\\E"

\* RegexMatcher(regex): the closure over regexp.MustCompile(matchFmt + regex)
RegexMatcher(regex) == matchFmt \o regex

\* StrMatcher(str)
StrMatcher(str) == RegexMatcher(Quoted(str))

\* The expressions SetPromptRegex is called with: the default, and two
\* groups as in TestSubMatches' (\w+)([#|>]) .
PromptRegexes == {defaultPromptRegex, "(#*)(#)"}
\* The expression TestRetrieve gives to SetPromptRegex: a line that ends in #.
LinePromptRegexes == {"[^\n]+#"}
\* A prompt expression with an optional capture group.
OptPromptRegexes == {"(#)?#"}
\* The literal prompts SetPrompt is called with.
Prompts == {"#"}
\* The expression given to ExpectRegex: a literal followed by a wildcard, as
\* TestMatch's test.+ , the wildcard in a group.
UserRegexes == {"\n(.*)"}
\* The literal given to ExpectStr.
UserStrs == {"\n"}
\* The string given to Send and SendLine, the bytes given to SendBytes.
SendStrs == {"#"}
SendData == {<<"#">>}

\* []byte(str) on the strings the sessions checked send.
Bytes(str) ==
    CASE str = "#" -> <<"#">>
      [] str = "#\n" -> <<"#", NL>>

\* A variant of MustCompile: the body group of the retrieve expression greedy.
MustCompileGreedy(src) ==
    CASE src = "(?ms)(.*?)(^\\S+$)" ->
            <<Open(1), Rep(Dot, 0, TRUE), Close(1),
              Open(2), Bol, Rep(NonSpace, 1, TRUE), Eol, Close(2)>>
      [] src = "(?ms)(.*?)(^\\Q#\\E$)" ->
            <<Open(1), Rep(Dot, 0, TRUE), Close(1),
              Open(2), Bol, Cls({"#"}), Eol, Close(2)>>
      [] src = "(?ms)(.*?)(^(#*)(#)$)" ->
            <<Open(1), Rep(Dot, 0, TRUE), Close(1),
              Open(2), Bol, Open(3), Rep({"#"}, 0, TRUE), Close(3),
              Open(4), Cls({"#"}), Close(4), Eol, Close(2)>>
      [] src = "(?ms)(.*?)(^[^\n]+#$)" ->
            <<Open(1), Rep(Dot, 0, TRUE), Close(1),
              Open(2), Bol, Rep(NotNL, 1, TRUE), Cls({"#"}), Eol, Close(2)>>
      [] src = "(?ms)(.*?)(^(#)?#$)" ->
            <<Open(1), Rep(Dot, 0, TRUE), Close(1),
              Open(2), Bol, Opt(3, {"#"}), Cls({"#"}), Eol, Close(2)>>
      [] src = "(?ms)\n(.*)" ->
            <<Cls({NL}), Open(1), Rep(Dot, 0, TRUE), Close(1)>>
      [] src = "(?ms)\\Q\n\\E" ->
            <<Cls({NL})>>

\* regexp.MustCompile on the sources the sessions checked compile.
MustCompile(src) ==
    CASE src = "(?ms)(.*?)(^\\S+$)" ->
            <<Open(1), Rep(Dot, 0, FALSE), Close(1),
              Open(2), Bol, Rep(NonSpace, 1, TRUE), Eol, Close(2)>>
      [] src = "(?ms)(.*?)(^\\Q#\\E$)" ->
            <<Open(1), Rep(Dot, 0, FALSE), Close(1),
              Open(2), Bol, Cls({"#"}), Eol, Close(2)>>
      [] src = "(?ms)(.*?)(^(#*)(#)$)" ->
            <<Open(1), Rep(Dot, 0, FALSE), Close(1),
              Open(2), Bol, Open(3), Rep({"#"}, 0, TRUE), Close(3),
              Open(4), Cls({"#"}), Close(4), Eol, Close(2)>>
      [] src = "(?ms)(.*?)(^[^\n]+#$)" ->
            <<Open(1), Rep(Dot, 0, FALSE), Close(1),
              Open(2), Bol, Rep(NotNL, 1, TRUE), Cls({"#"}), Eol, Close(2)>>
      [] src = "(?ms)(.*?)(^(#)?#$)" ->
            <<Open(1), Rep(Dot, 0, FALSE), Close(1),
              Open(2), Bol, Opt(3, {"#"}), Cls({"#"}), Eol, Close(2)>>
      [] src = "(?ms)\n(.*)" ->
            <<Cls({NL}), Open(1), Rep(Dot, 0, TRUE), Close(1)>>
      [] src = "(?ms)\\Q\n\\E" ->
            <<Cls({NL})>>

\* The Matchers of the sessions checked.
Matchers ==
    {RegexMatcher(retrieveRegex(re)) : re \in PromptRegexes}
        \cup {RegexMatcher(retrieveRegex(re)) : re \in LinePromptRegexes}
        \cup {RegexMatcher(retrieveRegex(re)) : re \in OptPromptRegexes}
        \cup {RegexMatcher(retrieveRegex(Quoted(prompt))) : prompt \in Prompts}
        \cup {RegexMatcher(regex) : regex \in UserRegexes}
        \cup {StrMatcher(str) : str \in UserStrs}

\* The closure of each Matcher, func(input string) []int, on every input a
\* session can hold: re.FindStringSubmatchIndex(input).
Closure ==
    [matcher \in Matchers |->
        [input \in Texts(MaxStream) \cup Texts(MaxData) |->
            FindStringSubmatchIndex(MustCompile(matcher), input)]]

\* The Matcher applied: m(input)
Match(matcher, input) == Closure[matcher][input]

\* The value of a Matcher variable never assigned.
NoMatcher == ""

\* validateParams on the ShellParam{} of New: the buffer size is never below
\* defaultBuffSize.
ValidBuffSize(b) == IF b < defaultBuffSize THEN defaultBuffSize ELSE b
buffSize == ValidBuffSize(0)

\* data[lo:hi]
Slice(data, lo, hi) == SubSeq(data, lo + 1, hi)

\* data[result[i]:result[i+1]] with a negative offset: the runtime panics
\* (slice bounds out of range).
Panics(result) == \E j \in 1..Len(result) : result[j] < 0

\* processResults: the matched strings of an index slice none of whose
\* offsets is negative.
processResults(result, data) ==
    [j \in 1..(Len(result) \div 2) |-> Slice(data, result[2 * j - 1], result[2 * j])]

IsPrefix(p, t) == Len(p) <= Len(t) /\ SubSeq(t, 1, Len(p)) = p

(***************************************************************************)
(* State.                                                                  *)
(***************************************************************************)
VARIABLES
    retrieve,   \* param.retrieve, the compiled retrieve matcher
    buffer,     \* Shell.buffer
    ch,         \* Shell.ch, the queued notifications (errors), oldest first
    lock,       \* TRUE while the caller holds Shell.lock
    rpc,        \* reader: "read", "append", "post" or "done"
    rbuf,       \* reader: buff[:n] of the read just completed
    rerr,       \* reader: err of the read just completed
    pc,         \* caller: "idle", "ack", "wait", "relock", "second", "panic"
    op,         \* caller: the public call in progress or last completed
    m,          \* caller: the Matcher handed to Expect
    timeout,    \* caller: the timeout argument of the read in progress
    timeSpent,  \* caller: Retrieve's timeSpent
    dur,        \* caller: Retrieve's dur
    data,       \* caller: Retrieve's data
    err,        \* caller: the err of read, ackReads and Retrieve
    reads,      \* caller: ackReads' reads
    result,     \* caller: Retrieve's result
    ret,        \* caller: the values the last return statement returned
    stream,     \* history: every byte the read source has returned
    empties,    \* history: the number of reads that returned no byte and no error
    owed,       \* history: the reads completed less the notifications posted
    failed,     \* history: the number of notifications posted with a non-nil error
    consumed,   \* history: every byte removed from the buffer by a match
    returned,   \* history: the whole matches returned so far, concatenated
    dropped,    \* history: a retrieved block was not returned (Expect's second pass failed)
    waited,     \* history: the durations of the waits of the call in progress, summed
    expired,    \* history: a wait of the call in progress ended by its timer
    seen,       \* history: the non-nil error this call received from the queue
    evals,      \* history: how often this call applied the user matcher
    calls,      \* history: the number of Retrieve and Expect calls made
    under,      \* history: the retrieve matcher in force when m was built
    written,    \* the write sink Shell.in: the byte slices written to it, in order
    sent,       \* the last send: the call, its argument, the sink's error and the
                \* error returned; history: whether a call was in progress
    BuffSize    \* param.BuffSize after validateParams

session == <<retrieve, buffer, ch, lock>>
readerVars == <<rpc, rbuf, rerr, stream, empties, owed, failed>>
locals == <<timeout, timeSpent, dur, data, err, reads, result>>
callerVars == <<pc, op, m, locals, ret>>
history == <<consumed, returned, dropped, waited, expired, seen, evals, calls, under>>
sinkVars == <<written, sent>>
vars == <<session, readerVars, callerVars, history, sinkVars, BuffSize>>

\* chanSize := param.BuffSize / readBuffSize; make(chan error, chanSize)
chanSize == BuffSize \div readBuffSize

\* The bytes the reader has written to the buffer.
Appended ==
    IF rpc = "append" THEN SubSeq(stream, 1, Len(stream) - Len(rbuf)) ELSE stream

NoReturn == [full |-> << >>, groups |-> << >>, err |-> Nil]

NoSend == [call |-> "none", arg |-> "", werr |-> Nil, err |-> Nil, during |-> FALSE]
\* The error of a failing io.Writer.
ErrWrite == "Bad write"

\* The buffer sizes a ShellParam is given: none (the zero value), sizes below,
\* at and above defaultBuffSize, multiples of readBuffSize and sizes between.
BuffSizes == {0, 16383, 16384, 32767, 32768}

\* NewWithParam on a ShellParam whose BuffSize is b: validateParams, the
\* channel made, the reader started.
NewWithParam(b) ==
    /\ BuffSize = ValidBuffSize(b)
    /\ retrieve = RegexMatcher(retrieveRegex(defaultPromptRegex))
    /\ buffer = << >>
    /\ ch = << >>
    /\ lock = FALSE
    /\ rpc = "read" /\ rbuf = << >> /\ rerr = Nil
    /\ pc = "idle" /\ op = "none" /\ m = NoMatcher
    /\ timeout = 0 /\ timeSpent = 0 /\ dur = 0 /\ data = << >>
    /\ err = Nil /\ reads = 0 /\ result = << >>
    /\ ret = NoReturn
    /\ stream = << >> /\ empties = 0 /\ owed = 0 /\ failed = 0
    /\ consumed = << >> /\ returned = << >> /\ dropped = FALSE
    /\ waited = 0 /\ expired = FALSE /\ seen = Nil /\ evals = 0 /\ calls = 0
    /\ under = NoMatcher
    /\ written = << >> /\ sent = NoSend

\* New: NewWithParam(in, out, &ShellParam{})
Init == NewWithParam(0)

(***************************************************************************)
(* The background reader.                                                  *)
(***************************************************************************)
\* A variant of ReaderRead: a read without bytes and without error is not
\* notified.
ReaderReadSilent ==
    /\ rpc = "read"
    /\ \E chunk \in Chunks[MaxStream - Len(stream)], e \in {Nil, EOF, BadRead} :
          /\ (chunk = << >> /\ e = Nil) => empties < MaxEmpty
          /\ empties' = IF chunk = << >> /\ e = Nil THEN empties + 1 ELSE empties
          /\ rbuf' = chunk
          /\ rerr' = e
          /\ stream' = stream \o chunk
          /\ rpc' = IF Len(chunk) > 0 THEN "append"
                    ELSE IF e = Nil THEN "read" ELSE "post"
    /\ owed' = owed + 1
    /\ UNCHANGED <<failed, session, callerVars, history, sinkVars, BuffSize>>

\* A variant of ReaderRead: the error of a read is looked at before its
\* bytes: bytes that come with an error are not appended.
ReaderReadErrFirst ==
    /\ rpc = "read"
    /\ \E chunk \in Chunks[MaxStream - Len(stream)], e \in {Nil, EOF, BadRead} :
          /\ (chunk = << >> /\ e = Nil) => empties < MaxEmpty
          /\ empties' = IF chunk = << >> /\ e = Nil THEN empties + 1 ELSE empties
          /\ rbuf' = IF e = Nil THEN chunk ELSE << >>
          /\ rerr' = e
          /\ stream' = stream \o chunk
          /\ rpc' = IF Len(chunk) > 0 /\ e = Nil THEN "append" ELSE "post"
    /\ owed' = owed + 1
    /\ UNCHANGED <<failed, session, callerVars, history, sinkVars, BuffSize>>

\* n, err := s.out.Read(buff): any chunk, with or without an error.
ReaderRead ==
    /\ rpc = "read"
    /\ \E chunk \in Chunks[MaxStream - Len(stream)], e \in {Nil, EOF, BadRead} :
          /\ (chunk = << >> /\ e = Nil) => empties < MaxEmpty
          /\ empties' = IF chunk = << >> /\ e = Nil THEN empties + 1 ELSE empties
          /\ rbuf' = chunk
          /\ rerr' = e
          /\ stream' = stream \o chunk
          /\ rpc' = IF Len(chunk) > 0 THEN "append" ELSE "post"
    /\ owed' = owed + 1
    /\ UNCHANGED <<failed, session, callerVars, history, sinkVars, BuffSize>>

\* n, err := s.out.Read(buff) on a blockingReader: the first Read returns the
\* whole content, non-empty, with a nil error; every later Read blocks for
\* ever, as does the first Read of an empty content.
BlockingRead ==
    /\ rpc = "read"
    /\ stream = << >>
    /\ \E content \in Texts(MaxData) \ {<< >>} :
          /\ rbuf' = content
          /\ stream' = content
    /\ rerr' = Nil
    /\ rpc' = "append"
    /\ owed' = owed + 1
    /\ UNCHANGED <<empties, failed, session, callerVars, history, sinkVars, BuffSize>>

\* A variant of ReaderAppend: the bytes are put in front of the buffer.
ReaderAppendFront ==
    /\ rpc = "append"
    /\ ~lock
    /\ buffer' = rbuf \o buffer
    /\ rbuf' = << >>
    /\ rpc' = "post"
    /\ UNCHANGED <<retrieve, ch, lock, rerr, stream, empties, owed, failed,
                   callerVars, history, sinkVars, BuffSize>>

\* A variant of ReaderAppend: s.buffer.Write(buff[:n+1]), one byte of the
\* unused part of buff, left there by an earlier read, is written too.
ReaderAppendExtra ==
    /\ rpc = "append"
    /\ ~lock
    /\ buffer' = buffer \o rbuf \o <<"#">>
    /\ rbuf' = << >>
    /\ rpc' = "post"
    /\ UNCHANGED <<retrieve, ch, lock, rerr, stream, empties, owed, failed,
                   callerVars, history, sinkVars, BuffSize>>

\* A variant of ReaderAppend: the reader writes to the buffer without taking
\* the lock.
ReaderAppendUnlocked ==
    /\ rpc = "append"
    /\ buffer' = buffer \o rbuf
    /\ rbuf' = << >>
    /\ rpc' = "post"
    /\ UNCHANGED <<retrieve, ch, lock, rerr, stream, empties, owed, failed,
                   callerVars, history, sinkVars, BuffSize>>

\* if n > 0 { lock; s.buffer.Write(buff[:n]); unlock }
ReaderAppend ==
    /\ rpc = "append"
    /\ ~lock
    /\ buffer' = buffer \o rbuf
    /\ rbuf' = << >>
    /\ rpc' = "post"
    /\ UNCHANGED <<retrieve, ch, lock, rerr, stream, empties, owed, failed,
                   callerVars, history, sinkVars, BuffSize>>

\* A variant of ReaderPost: the reader reads on after a read error.
ReaderPostRetry ==
    /\ rpc = "post"
    /\ Len(ch) < chanSize
    /\ ch' = Append(ch, rerr)
    /\ rpc' = "read"
    /\ rerr' = Nil
    /\ owed' = owed - 1
    /\ failed' = IF rerr # Nil THEN failed + 1 ELSE failed
    /\ UNCHANGED <<retrieve, buffer, lock, rbuf, stream, empties, callerVars, history, sinkVars, BuffSize>>

\* A variant of ReaderPost: the reader returns on errors other than io.EOF.
ReaderPostReadOn ==
    /\ rpc = "post"
    /\ Len(ch) < chanSize
    /\ ch' = Append(ch, rerr)
    /\ rpc' = IF rerr \notin {Nil, EOF} THEN "done" ELSE "read"
    /\ rerr' = Nil
    /\ owed' = owed - 1
    /\ failed' = IF rerr # Nil THEN failed + 1 ELSE failed
    /\ UNCHANGED <<retrieve, buffer, lock, rbuf, stream, empties, callerVars, history, sinkVars, BuffSize>>

\* A variant of ReaderPost: on a full channel the reader replaces the newest
\* queued notification instead of blocking.
ReaderPostOverwrite ==
    /\ rpc = "post"
    /\ ch' = IF Len(ch) < chanSize THEN Append(ch, rerr)
             ELSE [ch EXCEPT ![Len(ch)] = rerr]
    /\ rpc' = IF rerr # Nil THEN "done" ELSE "read"
    /\ rerr' = Nil
    /\ owed' = owed - 1
    /\ failed' = IF rerr # Nil THEN failed + 1 ELSE failed
    /\ UNCHANGED <<retrieve, buffer, lock, rbuf, stream, empties, callerVars, history, sinkVars, BuffSize>>

\* A variant of ReaderPost: the reader posts only while the channel keeps one
\* more free place.
ReaderPostNarrow ==
    /\ rpc = "post"
    /\ Len(ch) < chanSize - 1
    /\ ch' = Append(ch, rerr)
    /\ rpc' = IF rerr # Nil THEN "done" ELSE "read"
    /\ rerr' = Nil
    /\ owed' = owed - 1
    /\ failed' = IF rerr # Nil THEN failed + 1 ELSE failed
    /\ UNCHANGED <<retrieve, buffer, lock, rbuf, stream, empties, callerVars, history, sinkVars, BuffSize>>

\* A variant of ReaderPost: the reader posts its terminal error twice.
ReaderPostTwice ==
    /\ rpc = "post"
    /\ Len(ch) < chanSize
    /\ ch' = Append(ch, rerr)
    /\ rpc' = IF rerr = Nil THEN "read" ELSE IF failed = 0 THEN "post" ELSE "done"
    /\ rerr' = IF rerr # Nil /\ failed = 0 THEN rerr ELSE Nil
    /\ owed' = owed - 1
    /\ failed' = IF rerr # Nil THEN failed + 1 ELSE failed
    /\ UNCHANGED <<retrieve, buffer, lock, rbuf, stream, empties, callerVars, history, sinkVars, BuffSize>>

\* s.ch <- err; if err != nil { return }
ReaderPost ==
    /\ rpc = "post"
    /\ Len(ch) < chanSize
    /\ ch' = Append(ch, rerr)
    /\ rpc' = IF rerr # Nil THEN "done" ELSE "read"
    /\ rerr' = Nil
    /\ owed' = owed - 1
    /\ failed' = IF rerr # Nil THEN failed + 1 ELSE failed
    /\ UNCHANGED <<retrieve, buffer, lock, rbuf, stream, empties, callerVars, history, sinkVars, BuffSize>>

(***************************************************************************)
(* The caller: SetPromptRegex, Retrieve, Expect.                           *)
(***************************************************************************)
\* s.SetPromptRegex(re)
SetPromptRegex(re) ==
    /\ pc = "idle"
    /\ retrieve # RegexMatcher(retrieveRegex(re))
    /\ retrieve' = RegexMatcher(retrieveRegex(re))
    /\ UNCHANGED <<buffer, ch, lock, readerVars, callerVars, history, sinkVars, BuffSize>>

\* s.SetPrompt(prompt) = s.SetPromptRegex(fmt.Sprintf(`\Q%s\E`, prompt))
SetPrompt ==
    /\ pc = "idle"
    /\ \E prompt \in Prompts :
          /\ retrieve # RegexMatcher(retrieveRegex(Quoted(prompt)))
          /\ retrieve' = RegexMatcher(retrieveRegex(Quoted(prompt)))
    /\ UNCHANGED <<buffer, ch, lock, readerVars, callerVars, history, sinkVars, BuffSize>>

\* Retrieve's entry: s.lock.Lock(); timeSpent = 0; data, dur, err := s.read(0)
\* stands at ackReads with timeout 0.  The call uses the retrieve matcher r of
\* the session; built is the retrieve matcher that was in force when the
\* Matcher handed to Expect was built.
Enter(call, matcher, built, r) ==
    /\ pc = "idle"
    /\ calls < MaxCalls
    /\ calls' = calls + 1
    /\ ~lock
    /\ lock' = TRUE
    /\ pc' = "ack"
    /\ op' = call
    /\ m' = matcher
    /\ timeout' = 0 /\ timeSpent' = 0 /\ dur' = 0 /\ data' = << >>
    /\ err' = Nil /\ reads' = 0 /\ result' = << >>
    /\ ret' = NoReturn
    /\ waited' = 0 /\ expired' = FALSE /\ seen' = Nil /\ evals' = 0
    /\ under' = built
    /\ retrieve' = r
    /\ UNCHANGED <<buffer, ch, readerVars, consumed, returned, dropped, sinkVars, BuffSize>>

\* s.Retrieve()
Retrieve == m = NoMatcher /\ Enter("Retrieve", NoMatcher, NoMatcher, retrieve)

\* s.ExpectRegex(re) = s.Expect(RegexMatcher(re)): the matcher is built, then
\* Expect calls s.Retrieve().
ExpectRegex ==
    /\ m = NoMatcher
    /\ \E re \in UserRegexes : Enter("Expect", RegexMatcher(re), retrieve, retrieve)

\* s.ExpectStr(str) = s.Expect(StrMatcher(str))
ExpectStr ==
    /\ m = NoMatcher
    /\ \E str \in UserStrs : Enter("Expect", StrMatcher(str), retrieve, retrieve)

\* m := StrMatcher(str): the caller builds a Matcher and keeps it for its next
\* call, s.Expect(m); it can set another prompt in between.
BuildMatcher ==
    /\ pc = "idle"
    /\ m = NoMatcher
    /\ calls < MaxCalls
    /\ \E str \in UserStrs : m' = StrMatcher(str)
    /\ under' = retrieve
    /\ UNCHANGED <<session, readerVars, pc, op, locals, ret,
                   consumed, returned, dropped, waited, expired, seen, evals, calls, sinkVars, BuffSize>>

\* A variant of Expect: the call matches with the retrieve matcher that was in
\* force when m was built.
ExpectBound == m # NoMatcher /\ Enter("Expect", m, under, under)

\* s.Expect(m) with the Matcher built before
Expect == m # NoMatcher /\ Enter("Expect", m, under, retrieve)

\* A variant of AckRecv: the drain keeps the error of the first notification
\* it receives.
AckRecvFirst ==
    /\ pc = "ack"
    /\ ch # << >>
    /\ err' = IF reads = 0 THEN Head(ch) ELSE err
    /\ ch' = Tail(ch)
    /\ reads' = reads + 1
    /\ seen' = IF Head(ch) # Nil THEN Head(ch) ELSE seen
    /\ UNCHANGED <<retrieve, buffer, lock, readerVars, pc, op, m,
                   timeout, timeSpent, dur, data, result, ret,
                   consumed, returned, dropped, waited, expired, evals, calls, under, sinkVars, BuffSize>>

\* ackReads: case err = <-ch: reads++
AckRecv ==
    /\ pc = "ack"
    /\ ch # << >>
    /\ err' = Head(ch)
    /\ ch' = Tail(ch)
    /\ reads' = reads + 1
    /\ seen' = IF Head(ch) # Nil THEN Head(ch) ELSE seen
    /\ UNCHANGED <<retrieve, buffer, lock, readerVars, pc, op, m,
                   timeout, timeSpent, dur, data, result, ret,
                   consumed, returned, dropped, waited, expired, evals, calls, under, sinkVars, BuffSize>>

\* A variant of MustWait: read waits whatever its timeout.
MustWaitAnyTimeout(t, e, d, r) == e = Nil /\ (d = << >> \/ r = 0)

\* read: the condition under which it waits for data
MustWait(t, e, d, r) == t > 0 /\ e = Nil /\ (d = << >> \/ r = 0)

\* A variant of Break: the loop ends on a match only.
BreakOnMatch(e, res) == Len(res) > 0

\* Retrieve: if err != nil || len(result) > 0 { break }
Break(e, res) == e # Nil \/ Len(res) > 0

\* A variant of Budget: every wait is given the whole timeout.
BudgetReset(spent) == Timeout

\* Retrieve: the timeout of the next read, s.param.Timeout - timeSpent
Budget(spent) == Timeout - spent

\* A variant of NoMatchErr: every error is replaced.
NoMatchErrAll(e) == ErrNoMatches

\* Variants of NoMatchErr: no error replaced; only io.EOF replaced; only nil
\* replaced.
NoMatchErrKeep(e) == e
NoMatchErrEOFOnly(e) == IF e = EOF THEN ErrNoMatches ELSE e
NoMatchErrNilOnly(e) == IF e = Nil THEN ErrNoMatches ELSE e

\* Retrieve: if err == nil || err == io.EOF { err = ErrNoMatches }
NoMatchErr(e) == IF e = Nil \/ e = EOF THEN ErrNoMatches ELSE e

\* A variant of LeftOver: the data after the match is not written back.
LeftOverDropped(res, d) == << >>

\* A variant of LeftOver: s.resetBuff() is missing, the buffer keeps the match.
LeftOverKept(res, d) == d

\* Retrieve: s.resetBuff(); if result[1] < len(data) { s.buffer.WriteString(data[result[1]:]) }
LeftOver(res, d) == IF res[2] < Len(d) THEN Slice(d, res[2], Len(d)) ELSE << >>

\* A variant of RetrieveReturn: an error observed hides the match, as in the
\* first Expect.
RetrieveReturnErrFirst(res, d, e) ==
    IF Len(res) < 6 \/ e # Nil
    THEN [full |-> << >>, groups |-> << >>, err |-> NoMatchErr(e)]
    ELSE LET results == processResults(res, d)
         IN [full |-> results[1], groups |-> Tail(results), err |-> e]

\* A variant of RetrieveReturn: the whole match is kept as the first group.
RetrieveReturnWhole(res, d, e) ==
    IF Len(res) < 6
    THEN [full |-> << >>, groups |-> << >>, err |-> NoMatchErr(e)]
    ELSE LET results == processResults(res, d)
         IN [full |-> results[1], groups |-> results, err |-> e]

\* Retrieve: the values returned after the loop
RetrieveReturn(res, d, e) ==
    IF Len(res) < 6
    THEN [full |-> << >>, groups |-> << >>, err |-> NoMatchErr(e)]
    ELSE LET results == processResults(res, d)
         IN [full |-> results[1], groups |-> Tail(results), err |-> e]

\* A variant of Iterate: resetBuff runs before the test for a match, so a
\* return without a match leaves the buffer empty.
IterateReset(d, du, e) ==
    LET res == Match(retrieve, d)
    IN /\ data' = d
       /\ result' = res
       /\ dur' = 0
       /\ reads' = 0
       /\ IF ~Break(e, res)
          THEN /\ timeSpent' = timeSpent + du
               /\ timeout' = Budget(timeSpent + du)
               /\ err' = Nil
               /\ pc' = "ack"
               /\ lock' = TRUE
               /\ UNCHANGED <<buffer, ret, consumed, returned, waited>>
          ELSE /\ ret' = IF Len(res) >= 6 /\ Panics(res)
                         THEN NoReturn
                         ELSE RetrieveReturn(res, d, e)
               /\ IF Len(res) < 6
                  THEN buffer' = << >> /\ UNCHANGED <<consumed, returned>>
                  ELSE /\ buffer' = LeftOver(res, d)
                       /\ consumed' = consumed \o Slice(d, 0, res[2])
                       /\ returned' = IF op = "Retrieve" /\ ~Panics(res)
                                      THEN returned \o Slice(d, res[1], res[2])
                                      ELSE returned
               /\ lock' = FALSE
               /\ pc' = IF Len(res) >= 6 /\ Panics(res) THEN "panic"
                        ELSE IF op = "Expect" THEN "second" ELSE "idle"
               /\ err' = e
               /\ timeout' = 0
               /\ timeSpent' = 0
               /\ waited' = 0

\* Retrieve from the return of s.read with (d, du, e), the lock held: one pass
\* of the loop.  Without a break: timeSpent += dur and the next s.read stands
\* at ackReads (its reads and err start from zero; dur, assigned again by
\* every read, is not kept).  With a break: the rest of Retrieve up to its
\* return, the deferred s.lock.Unlock() included; of the locals, those the
\* return values were computed from are kept for inspection.  When
\* processResults panics, after resetBuff and the write-back of the data left
\* over, the call returns nothing: the deferred unlock runs and the caller
\* stands at "panic".
Iterate(d, du, e) ==
    LET res == Match(retrieve, d)
    IN /\ data' = d
       /\ result' = res
       /\ dur' = 0
       /\ reads' = 0
       /\ IF ~Break(e, res)
          THEN /\ timeSpent' = timeSpent + du
               /\ timeout' = Budget(timeSpent + du)
               /\ err' = Nil
               /\ pc' = "ack"
               /\ lock' = TRUE
               /\ UNCHANGED <<buffer, ret, consumed, returned, waited>>
          ELSE /\ ret' = IF Len(res) >= 6 /\ Panics(res)
                         THEN NoReturn
                         ELSE RetrieveReturn(res, d, e)
               /\ IF Len(res) < 6
                  THEN UNCHANGED <<buffer, consumed, returned>>
                  ELSE /\ buffer' = LeftOver(res, d)
                       /\ consumed' = consumed \o Slice(d, 0, res[2])
                       /\ returned' = IF op = "Retrieve" /\ ~Panics(res)
                                      THEN returned \o Slice(d, res[1], res[2])
                                      ELSE returned
               /\ lock' = FALSE
               /\ pc' = IF Len(res) >= 6 /\ Panics(res) THEN "panic"
                        ELSE IF op = "Expect" THEN "second" ELSE "idle"
               /\ err' = e
               /\ timeout' = 0
               /\ timeSpent' = 0
               /\ waited' = 0

\* ackReads: default: return reads, err; read: data = s.buffer.String(), the
\* wait is needed: waitForData unlocks and blocks in its select.
AckWait ==
    /\ pc = "ack"
    /\ ch = << >>
    /\ MustWait(timeout, err, buffer, reads)
    /\ data' = buffer
    /\ lock' = FALSE
    /\ pc' = "wait"
    /\ UNCHANGED <<retrieve, buffer, ch, readerVars, op, m,
                   timeout, timeSpent, dur, err, reads, result, ret, history, sinkVars, BuffSize>>

\* ackReads: default: return reads, err; read: data = s.buffer.String(), no
\* wait: read returns (data, 0, err) and Retrieve goes through its loop.
AckReturn ==
    /\ pc = "ack"
    /\ ch = << >>
    /\ ~MustWait(timeout, err, buffer, reads)
    /\ Iterate(buffer, 0, err)
    /\ UNCHANGED <<retrieve, ch, readerVars, op, m,
                   dropped, expired, seen, evals, calls, under, sinkVars, BuffSize>>

\* waitForData: case err := <-s.ch: return time.Since(t), err
WaitRecv ==
    /\ pc = "wait"
    /\ ch # << >>
    /\ \E d \in 0..(timeout + MaxLate) :
          /\ dur' = d
          /\ waited' = waited + d
    /\ err' = Head(ch)
    /\ ch' = Tail(ch)
    /\ seen' = IF Head(ch) # Nil THEN Head(ch) ELSE seen
    /\ pc' = "relock"
    /\ UNCHANGED <<retrieve, buffer, lock, readerVars, op, m,
                   timeout, timeSpent, data, reads, result, ret,
                   consumed, returned, dropped, expired, evals, calls, under, sinkVars, BuffSize>>

\* waitForData: case <-time.After(timeout): return timeout, errors.New("Read timed out")
WaitTimeout ==
    /\ pc = "wait"
    /\ dur' = timeout
    /\ waited' = waited + timeout
    /\ err' = ErrTimeout
    /\ expired' = TRUE
    /\ pc' = "relock"
    /\ UNCHANGED <<session, readerVars, op, m,
                   timeout, timeSpent, data, reads, result, ret,
                   consumed, returned, dropped, seen, evals, calls, under, sinkVars, BuffSize>>

\* waitForData: defer s.lock.Lock(); read: data = s.buffer.String(); read
\* returns (data, d, err) and Retrieve goes through its loop.
Relock ==
    /\ pc = "relock"
    /\ ~lock
    /\ Iterate(buffer, dur, err)
    /\ UNCHANGED <<retrieve, ch, readerVars, op, m,
                   dropped, expired, seen, evals, calls, under, sinkVars, BuffSize>>

\* A variant of ExpectReturn: what Retrieve returned is returned as it is.
ExpectReturnStale(matcher, r) == r

\* A variant of ExpectReturn: of Retrieve's groups only the prompt's own
\* capture groups are appended, the prompt text is not.
ExpectReturnSubOnly(matcher, r) ==
    IF Len(r.groups) < 2
    THEN [full |-> << >>, groups |-> << >>, err |-> r.err]
    ELSE LET res == Match(matcher, r.groups[1])
         IN IF Len(res) < 2
            THEN [full |-> << >>, groups |-> << >>, err |-> NoMatchErr(r.err)]
            ELSE [full |-> r.full,
                  groups |-> processResults(res, r.groups[1]) \o Tail(Tail(r.groups)),
                  err |-> r.err]

\* A variant of ExpectReturn: the whole match returned is that of the
\* caller's matcher in the body.
ExpectReturnOwnFull(matcher, r) ==
    IF Len(r.groups) < 2
    THEN [full |-> << >>, groups |-> << >>, err |-> r.err]
    ELSE LET res == Match(matcher, r.groups[1])
         IN IF Len(res) < 2
            THEN [full |-> << >>, groups |-> << >>, err |-> NoMatchErr(r.err)]
            ELSE [full |-> Slice(r.groups[1], res[1], res[2]),
                  groups |-> processResults(res, r.groups[1]) \o Tail(r.groups),
                  err |-> r.err]

\* Expect after full, groups, err := s.Retrieve()
ExpectReturn(matcher, r) ==
    IF Len(r.groups) < 2
    THEN [full |-> << >>, groups |-> << >>, err |-> r.err]
    ELSE LET res == Match(matcher, r.groups[1])
         IN IF Len(res) < 2
            THEN [full |-> << >>, groups |-> << >>, err |-> NoMatchErr(r.err)]
            ELSE [full |-> r.full,
                  groups |-> processResults(res, r.groups[1]) \o Tail(r.groups),
                  err |-> r.err]

\* Expect: processResults(result, groups[0]) panics
SecondPanics(matcher, r) ==
    /\ Len(r.groups) >= 2
    /\ Len(Match(matcher, r.groups[1])) >= 2
    /\ Panics(Match(matcher, r.groups[1]))

\* A variant of ExpectSecond: when the caller's matcher does not match, the
\* retrieved block is written back in front of the buffer.
ExpectSecondRestore ==
    /\ pc = "second"
    /\ ret' = IF SecondPanics(m, ret) THEN NoReturn ELSE ExpectReturn(m, ret)
    /\ evals' = IF Len(ret.groups) < 2 THEN evals ELSE evals + 1
    /\ returned' = IF ~SecondPanics(m, ret) /\ ExpectReturn(m, ret).groups # << >>
                   THEN returned \o ret.full ELSE returned
    /\ dropped' = (dropped \/ (/\ Len(ret.groups) >= 2
                                /\ (SecondPanics(m, ret) \/ ExpectReturn(m, ret).groups = << >>)))
    /\ pc' = IF SecondPanics(m, ret) THEN "panic" ELSE "idle"
    /\ m' = NoMatcher
    /\ buffer' = IF Len(ret.groups) >= 2 /\ Match(m, ret.groups[1]) = << >>
                 THEN ret.full \o buffer ELSE buffer
    /\ UNCHANGED <<retrieve, ch, lock, readerVars, op, locals, consumed, waited, expired, seen, calls, under, sinkVars, BuffSize>>

\* Expect: everything after s.Retrieve() has returned
ExpectSecond ==
    /\ pc = "second"
    /\ ret' = IF SecondPanics(m, ret) THEN NoReturn ELSE ExpectReturn(m, ret)
    /\ evals' = IF Len(ret.groups) < 2 THEN evals ELSE evals + 1
    /\ returned' = IF ~SecondPanics(m, ret) /\ ExpectReturn(m, ret).groups # << >>
                   THEN returned \o ret.full ELSE returned
    /\ dropped' = (dropped \/ (/\ Len(ret.groups) >= 2
                                /\ (SecondPanics(m, ret) \/ ExpectReturn(m, ret).groups = << >>)))
    /\ pc' = IF SecondPanics(m, ret) THEN "panic" ELSE "idle"
    /\ m' = NoMatcher
    /\ UNCHANGED <<session, readerVars, op, locals, consumed, waited, expired, seen, calls, under, sinkVars, BuffSize>>

(***************************************************************************)
(* Sending: SendBytes, Send, SendLine.  They take no lock and stand in no  *)
(* order with a call in progress.                                          *)
(***************************************************************************)
\* _, err := s.in.Write(b); return err, for the public call and its argument
Write(call, arg, b) ==
    /\ \E e \in {Nil, ErrWrite} :
          /\ written' = Append(written, b)
          /\ sent' = [call |-> call, arg |-> arg, werr |-> e, err |-> e,
                      during |-> pc # "idle"]
    /\ UNCHANGED <<session, readerVars, callerVars, history, BuffSize>>

\* s.SendBytes(b)
SendBytes ==
    /\ Len(written) < MaxSends
    /\ \E b \in SendData : Write("SendBytes", b, b)

\* s.Send(str) = s.SendBytes([]byte(str))
Send ==
    /\ Len(written) < MaxSends
    /\ \E str \in SendStrs : Write("Send", str, Bytes(str))

\* A variant of SendLine: no newline is added.
SendLineBare ==
    /\ Len(written) < MaxSends
    /\ \E str \in SendStrs : Write("SendLine", str, Bytes(str))

\* s.SendLine(str) = s.SendBytes([]byte(str + "\n"))
SendLine ==
    /\ Len(written) < MaxSends
    /\ \E str \in SendStrs : Write("SendLine", str, Bytes(str \o "\n"))

\* A session in which the caller sets a literal prompt or the default prompt
\* again and builds its Matchers as it calls.
Next ==
    \/ ReaderRead
    \/ ReaderAppend
    \/ ReaderPost
    \/ SetPromptRegex(defaultPromptRegex)
    \/ SetPrompt
    \/ Retrieve
    \/ ExpectRegex
    \/ ExpectStr
    \/ AckRecv
    \/ AckWait
    \/ AckReturn
    \/ WaitRecv
    \/ WaitTimeout
    \/ Relock
    \/ ExpectSecond

Spec == Init /\ [][Next]_vars

\* A call in progress: every step of Retrieve and Expect after the entry.
CallStep ==
    \/ AckRecv
    \/ AckWait
    \/ AckReturn
    \/ WaitRecv
    \/ WaitTimeout
    \/ Relock
    \/ ExpectSecond

\* The reader goroutine outside its blocking Read.
ReaderStep == ReaderAppend \/ ReaderPost

\* The goroutines are scheduled and timers fire: the reader, outside its
\* blocking Read, and a call in progress take a step when one stays possible.
\* The read source may stay silent and the caller may make no further call.
FairSpec == Spec /\ WF_vars(ReaderStep) /\ WF_vars(CallStep)

\* A session under the default prompt in which another goroutine sends while
\* the caller retrieves and expects.
SendNext ==
    \/ ReaderRead
    \/ ReaderAppend
    \/ ReaderPost
    \/ Retrieve
    \/ ExpectStr
    \/ AckRecv
    \/ AckWait
    \/ AckReturn
    \/ WaitRecv
    \/ WaitTimeout
    \/ Relock
    \/ ExpectSecond
    \/ SendBytes
    \/ Send
    \/ SendLine

SendSpec == Init /\ [][SendNext]_vars

\* A session in which the caller sets prompts with and without capture groups
\* and calls Retrieve and ExpectRegex.
GroupNext ==
    \/ ReaderRead
    \/ ReaderAppend
    \/ ReaderPost
    \/ \E re \in PromptRegexes : SetPromptRegex(re)
    \/ Retrieve
    \/ ExpectRegex
    \/ AckRecv
    \/ AckWait
    \/ AckReturn
    \/ WaitRecv
    \/ WaitTimeout
    \/ Relock
    \/ ExpectSecond

GroupSpec == Init /\ [][GroupNext]_vars

\* A session in which the caller builds a Matcher, may set another prompt, and
\* then hands the Matcher to Expect.
HeldNext ==
    \/ ReaderRead
    \/ ReaderAppend
    \/ ReaderPost
    \/ SetPromptRegex(defaultPromptRegex)
    \/ SetPrompt
    \/ BuildMatcher
    \/ Expect
    \/ AckRecv
    \/ AckWait
    \/ AckReturn
    \/ WaitRecv
    \/ WaitTimeout
    \/ Relock
    \/ ExpectSecond

HeldSpec == Init /\ [][HeldNext]_vars

\* A session that keeps the prompt of New, \S+ , and sends nothing.
DefaultPromptNext ==
    \/ ReaderRead
    \/ ReaderAppend
    \/ ReaderPost
    \/ Retrieve
    \/ ExpectRegex
    \/ ExpectStr
    \/ AckRecv
    \/ AckWait
    \/ AckReturn
    \/ WaitRecv
    \/ WaitTimeout
    \/ Relock
    \/ ExpectSecond

DefaultPromptSpec == Init /\ [][DefaultPromptNext]_vars

\* Sessions made by NewWithParam with the buffer sizes of BuffSizes, read
\* with Retrieve.
SizedInit == \E b \in BuffSizes : NewWithParam(b)

SizedNext ==
    \/ ReaderRead
    \/ ReaderAppend
    \/ ReaderPost
    \/ Retrieve
    \/ AckRecv
    \/ AckWait
    \/ AckReturn
    \/ WaitRecv
    \/ WaitTimeout
    \/ Relock

SizedSpec == SizedInit /\ [][SizedNext]_vars

\* A session in which the caller sets a prompt with an optional capture group
\* and calls Retrieve.
OptNext ==
    \/ ReaderRead
    \/ ReaderAppend
    \/ ReaderPost
    \/ \E re \in OptPromptRegexes : SetPromptRegex(re)
    \/ Retrieve
    \/ AckRecv
    \/ AckWait
    \/ AckReturn
    \/ WaitRecv
    \/ WaitTimeout
    \/ Relock

OptSpec == Init /\ [][OptNext]_vars

\* A session on a blockingReader in which the caller sets the prompt with
\* SetPromptRegex, as TestSubMatches and TestRetrieve do, or with SetPrompt, or
\* keeps the default, and calls Retrieve, ExpectRegex and ExpectStr.
BlockingNext ==
    \/ BlockingRead
    \/ ReaderAppend
    \/ ReaderPost
    \/ \E re \in PromptRegexes \cup LinePromptRegexes : SetPromptRegex(re)
    \/ SetPrompt
    \/ Retrieve
    \/ ExpectRegex
    \/ ExpectStr
    \/ AckRecv
    \/ AckWait
    \/ AckReturn
    \/ WaitRecv
    \/ WaitTimeout
    \/ Relock
    \/ ExpectSecond

BlockingSpec == Init /\ [][BlockingNext]_vars

\* SizedSpec with the goroutines scheduled as in FairSpec.
FairSizedSpec == SizedSpec /\ WF_vars(ReaderStep) /\ WF_vars(CallStep)

(***************************************************************************)
(* Properties.                                                             *)
(***************************************************************************)
\* The step on which Retrieve leaves its loop with a match and returns.
MatchReturn ==
    /\ pc \in {"ack", "relock"}
    /\ pc' \in {"idle", "second"}
    /\ Len(result') >= 6

\* The last call has returned.
CallReturned == pc = "idle" /\ op # "none"

NoMatchReturn(e) == [full |-> << >>, groups |-> << >>, err |-> e]

\* s[p:q] is a whole line of s that the prompt expression of the retrieve
\* matcher src matches: one or more non-space characters (\S+ and (#*)(#)
\* alike, # being the one non-space character), or the literal #.
PromptLine(src, s, p, q) ==
    /\ 0 <= p /\ p < q /\ q <= Len(s)
    /\ (p = 0 \/ s[p] = NL)
    /\ (q = Len(s) \/ s[q + 1] = NL)
    /\ IF src \in {RegexMatcher(retrieveRegex(re)) : re \in PromptRegexes}
       THEN \A i \in (p + 1)..q : s[i] \in NonSpace
       ELSE Slice(s, p, q) = <<"#">>

\* s[p:q] is the first such line of s.
FirstPromptLine(src, s, p, q) ==
    /\ PromptLine(src, s, p, q)
    /\ \A p2 \in 0..(p - 1) : \A q2 \in (p2 + 1)..Len(s) : ~PromptLine(src, s, p2, q2)

\* C1: at every moment the bytes consumed by matches, followed by the buffer,
\* are exactly the bytes the reader has appended; and when a call matches its
\* snapshot T (the buffer, read under the lock) with the match ending at k,
\* the buffer holds exactly T[k:] when the call returns: no byte of the
\* leftover is lost and none is delivered twice.
C1_LeftoverRetention ==
    [][/\ consumed' \o buffer' = Appended'
       /\ MatchReturn =>
             /\ data' = buffer
             /\ buffer' = SubSeq(data', result'[2] + 1, Len(data'))
             /\ consumed' = consumed \o SubSeq(data', 1, result'[2])]_vars

\* A second call has taken the leftover of the first as its snapshot.
C1_Witness ==
    /\ calls = 2
    /\ pc = "wait"
    /\ consumed # << >>
    /\ data # << >>
    /\ data = buffer
    /\ consumed \o data = stream

\* The offsets of s at which its blocks end, counted from the block end e on:
\* e itself and, when the retrieve matcher matches all that follows e, the
\* block ends after the end of that match.
RECURSIVE BlockEndsFrom(_, _)
BlockEndsFrom(s, e) ==
    LET found == Match(retrieve, Slice(s, e, Len(s)))
    IN IF Len(found) < 6 \/ found[2] = 0 THEN {e}
       ELSE {e} \cup BlockEndsFrom(s, e + found[2])

\* From every block end of s on, no beginning of what follows holds a prompt
\* line that is not the first prompt line of all that follows: a snapshot
\* that starts at a block end, whatever part of the rest it holds, gives no
\* match or the match of the whole rest.
StableBlocks(s) ==
    \A e \in BlockEndsFrom(s, 0) :
        \A k \in 0..(Len(s) - e) :
            Match(retrieve, Slice(s, e, e + k))
                \in {<< >>, Match(retrieve, Slice(s, e, Len(s)))}

\* C2 as stated: once the stream has ended, the blocks returned so far end
\* where a block of the stream ends, each block running up to and including
\* the first prompt line of the stream that follows the block before it.
C2_StreamBlocks ==
    (rpc = "done" /\ ~dropped) =>
        /\ IsPrefix(returned, stream)
        /\ Len(returned) \in BlockEndsFrom(stream, 0)

\* C2: a match starts at the beginning of the snapshot and ends with the first
\* prompt line of the snapshot, the body being everything before that line;
\* Retrieve returns exactly that block, and as long as no retrieved block was
\* withheld by Expect the blocks returned so far, concatenated, are the bytes
\* consumed so far and a prefix of the stream.  When no snapshot can end in an
\* unfinished line that matches the prompt (StableBlocks), the blocks
\* returned are the blocks of the stream: each ends with the first prompt
\* line of the stream after the block before it.
C2_BlocksInOrder ==
    /\ []((~dropped /\ StableBlocks(stream)) =>
             Len(returned) \in BlockEndsFrom(stream, 0))
    /\ [][/\ ~dropped' => IsPrefix(returned', stream')
          /\ (~dropped' /\ pc' = "idle") => returned' = consumed'
          /\ MatchReturn =>
                /\ result'[1] = 0
                /\ result'[3] = 0
                /\ result'[4] = result'[5]
                /\ result'[6] = result'[2]
                /\ FirstPromptLine(retrieve, data', result'[5], result'[6])
                /\ ret'.full = SubSeq(data', 1, result'[2])
                /\ op = "Retrieve" => returned' = returned \o ret'.full]_vars

\* Two Retrieve calls have returned the two blocks of the stream #\n# , which
\* has ended; no beginning of it ends in an unfinished prompt line.
C2_Witness ==
    /\ CallReturned
    /\ op = "Retrieve"
    /\ calls = 2
    /\ ~dropped
    /\ rpc = "done"
    /\ stream = <<"#", NL, "#">>
    /\ StableBlocks(stream)
    /\ BlockEndsFrom(stream, 0) = {0, 1, 3}
    /\ returned = <<"#", NL, "#">>
    /\ ret.full = <<NL, "#">>

\* C3 as claimed: the user matcher is not constructed before Retrieve has
\* returned.
C3_ConstructorNotReached ==
    (op = "Expect" /\ pc \in {"ack", "wait", "relock"}) => m = NoMatcher

\* C3: Expect applies the user matcher at most once, after Retrieve has
\* returned, and only when Retrieve matched; an Expect call that received
\* io.EOF and found no prompt line returns NoMatches with nothing else and
\* has not applied the user matcher.  (The matcher itself is constructed
\* before Retrieve is called.)
C3_FailFast ==
    op = "Expect" =>
        /\ pc # "idle" => evals = 0
        /\ evals <= 1
        /\ evals = 1 => Len(result) >= 6
        /\ (pc = "idle" /\ seen = EOF /\ Len(result) < 6) =>
               /\ evals = 0
               /\ ret = NoMatchReturn(ErrNoMatches)

\* The stream has ended without a prompt line and Expect has failed fast.
C3_Witness ==
    /\ CallReturned
    /\ op = "Expect"
    /\ seen = EOF
    /\ stream # << >>
    /\ Len(result) < 6
    /\ evals = 0
    /\ ret = NoMatchReturn(ErrNoMatches)

\* C4 as claimed: an Expect call whose user pattern does not match the
\* retrieved body returns NoMatches.
C4_MismatchIsNoMatches ==
    (CallReturned /\ op = "Expect" /\ evals = 1 /\ ret.groups = << >>) =>
        ret.err = ErrNoMatches

\* C4: once Retrieve has returned inside Expect, the call returns on its next
\* step, having touched neither the queue, the buffer, the lock nor the
\* clock; when Retrieve matched and the user pattern does not match the body
\* Retrieve returned, the call returns nothing but an error: NoMatches when
\* Retrieve's error was nil or io.EOF, otherwise Retrieve's error.
C4_NoSecondWait ==
    [][(pc = "second" /\ pc' # "second") =>
          /\ pc' = "idle"
          /\ UNCHANGED <<buffer, ch, lock, expired, data, consumed>>
          /\ (Len(ret.groups) >= 2 /\ Match(m, ret.groups[1]) = << >>) =>
                ret' = NoMatchReturn(IF ret.err \in {Nil, EOF}
                                     THEN ErrNoMatches ELSE ret.err)]_vars

\* The user pattern did not match the body and the call returned NoMatches.
C4_Witness ==
    /\ CallReturned
    /\ op = "Expect"
    /\ evals = 1
    /\ ret = NoMatchReturn(ErrNoMatches)

\* C5: when Retrieve leaves its loop with an error observed and its snapshot
\* holds a match, it returns that match (a non-empty whole match, body and
\* prompt groups) with the error, and the match is consumed from the buffer;
\* and when Expect's user pattern matches the body Retrieve returned with an
\* error, Expect returns the whole match and its groups with that error.
C5_MatchOverError ==
    [][/\ (/\ pc \in {"ack", "relock"}
           /\ pc' \in {"idle", "second"}
           /\ err' # Nil
           /\ Match(retrieve, buffer) # << >>) =>
             LET res == Match(retrieve, buffer)
             IN /\ ret'.full = SubSeq(buffer, res[1] + 1, res[2])
                /\ ret'.full # << >>
                /\ Len(ret'.groups) >= 2
                /\ ret'.err = err'
                /\ buffer' = SubSeq(buffer, res[2] + 1, Len(buffer))
       /\ (/\ pc = "second"
           /\ pc' = "idle"
           /\ ret.err # Nil
           /\ Len(ret.groups) >= 2
           /\ Match(m, ret.groups[1]) # << >>) =>
             /\ ret'.full = ret.full
             /\ Len(ret'.groups) >= 2
             /\ ret'.err = ret.err]_vars

\* Retrieve has returned a match although the stream had ended.
C5_Witness ==
    /\ CallReturned
    /\ op = "Retrieve"
    /\ seen = EOF
    /\ ret.err = EOF
    /\ ret.full # << >>
    /\ Len(ret.groups) >= 2

\* C6 as claimed: Expect returns no match together with an error.
C6_NoMatchWithError ==
    (CallReturned /\ op = "Expect" /\ ret.err # Nil) =>
        (ret.full = << >> /\ ret.groups = << >>)

\* C6: a call that returns no groups returns an empty whole match and a
\* non-nil error; a call that returns groups returns a non-empty whole match
\* and either nil or the error it observed (io.EOF, a read error, the
\* timeout), never NoMatches.
C6_MatchOrError ==
    CallReturned =>
        /\ ret.groups = << >> => (ret.full = << >> /\ ret.err # Nil)
        /\ ret.groups # << >> =>
              /\ ret.full # << >>
              /\ ret.err \in {Nil, EOF, BadRead, ErrTimeout}
              /\ ret.err # Nil => ret.err = err

\* Expect has returned a match together with io.EOF.
C6_Witness ==
    /\ CallReturned
    /\ op = "Expect"
    /\ ret.groups # << >>
    /\ ret.full # << >>
    /\ ret.err = EOF

\* C7: once a wait of a call has ended by its timer, the call waits and
\* drains no more, and it returns the timeout error.
C7_TimeoutPropagates ==
    expired =>
        /\ pc \in {"relock", "second", "idle"}
        /\ pc = "relock" => err = ErrTimeout
        /\ pc \in {"second", "idle"} => ret.err = ErrTimeout

\* A call whose wait expired has returned the timeout error and nothing else.
C7_Witness ==
    /\ CallReturned
    /\ expired
    /\ ret = NoMatchReturn(ErrTimeout)

\* C8 as claimed: the durations waited in one call never sum to more than the
\* configured timeout.
C8_SumWithinTimeout == waited <= Timeout

\* C8: every wait of a call is given the configured timeout less the
\* durations of the earlier waits of that call, which is positive; the
\* durations sum to timeSpent; and the sum exceeds the configured timeout by
\* at most the lateness of the last receive.
C8_CumulativeBudget ==
    /\ pc = "wait" => (timeout = Timeout - waited /\ timeout > 0)
    /\ pc \in {"ack", "wait"} => timeSpent = waited
    /\ pc = "relock" => (timeSpent + dur = waited /\ dur <= timeout + MaxLate)
    /\ waited <= Timeout + MaxLate

\* A second wait of one call, with what is left of the budget.
C8_Witness ==
    /\ pc = "wait"
    /\ waited > 0
    /\ timeout = Timeout - waited
    /\ timeout < Timeout

\* C9 as claimed: every call eventually returns.
C9_EveryCallReturns == (pc # "idle") ~> (pc = "idle")

\* C10: after a read error other than io.EOF the reader reads no more, and
\* the call that received it returns that error: with nothing else when
\* Retrieve found no match or the user pattern did not match.
C10_ReadErrorVerbatim ==
    /\ (seen = BadRead \/ \E i \in 1..Len(ch) : ch[i] = BadRead) => rpc = "done"
    /\ (CallReturned /\ seen = BadRead) =>
          /\ ret.err = BadRead
          /\ Len(result) < 6 => ret = NoMatchReturn(BadRead)
          /\ ret.groups = << >> => ret.full = << >>

\* A call has returned the read error and nothing else; the reader is done.
C10_Witness ==
    /\ CallReturned
    /\ seen = BadRead
    /\ ret = NoMatchReturn(BadRead)
    /\ rpc = "done"

\* C11: a call that has returned without a match returns the timeout error
\* when one of its waits ended by its timer, the read error when the queue gave
\* it one, and ErrNoMatches when all it received was nil or io.EOF; it never
\* returns nil and never io.EOF.
C11_EndOfStreamNormalized ==
    (CallReturned /\ ret.groups = << >>) =>
        /\ ret.err \notin {Nil, EOF}
        /\ expired => ret.err = ErrTimeout
        /\ (~expired /\ seen = BadRead) => ret.err = BadRead
        /\ (~expired /\ seen \in {Nil, EOF}) => ret.err = ErrNoMatches

\* Retrieve has received io.EOF with data that holds no prompt line and has
\* returned ErrNoMatches.
C11_Witness ==
    /\ CallReturned /\ op = "Retrieve"
    /\ seen = EOF /\ ~expired
    /\ data # << >>
    /\ ret = NoMatchReturn(ErrNoMatches)

\* The step on which Expect returns a match of the user matcher.
ExpectSuccess == pc = "second" /\ pc' = "idle" /\ ret'.groups # << >>

\* The number of strings a match of the Matcher src yields for the user: the
\* whole match and one per capture group.
UserGroups(src) == NumSubexp(MustCompile(src)) + 1

\* The number N of capture groups of the prompt expression inside the retrieve
\* Matcher src; the retrieve expression adds the body group and the prompt
\* group around it.
PromptSubexp(src) == NumSubexp(MustCompile(src)) - 2

\* C12 as stated: a successful Expect returns the user pattern's groups and
\* after them exactly N strings, N the number of the prompt's capture groups.
C12_ExactlyNPromptGroups ==
    [][ExpectSuccess =>
          Len(ret'.groups) = UserGroups(m) + PromptSubexp(retrieve)]_vars

\* C12: a successful Expect returns the user pattern's whole match and groups
\* on the retrieved body first, then the text of the prompt line, then the N
\* strings the prompt's capture groups matched, in the order of the groups:
\* N + 1 strings follow the user's.
C12_PromptGroupSplicing ==
    [][ExpectSuccess =>
          LET u == UserGroups(m)
              n == PromptSubexp(retrieve)
              body == Slice(data, result[3], result[4])
              user == Match(m, body)
          IN /\ Len(ret'.groups) = u + 1 + n
             /\ \A j \in 1..u :
                    ret'.groups[j] = Slice(body, user[2 * j - 1], user[2 * j])
             /\ ret'.groups[u + 1] = Slice(data, result[5], result[6])
             /\ \A j \in 1..n :
                    ret'.groups[u + 1 + j] =
                        Slice(data, result[5 + 2 * j], result[6 + 2 * j])]_vars

\* ExpectRegex with one group has succeeded on "\n##" under the prompt
\* (#*)(#): the user's two strings, the prompt line, the prompt's two groups.
C12_Witness ==
    /\ CallReturned /\ op = "Expect"
    /\ ret.groups = <<<<NL>>, << >>, <<"#", "#">>, <<"#">>, <<"#">>>>

\* C13: a Retrieve that has returned a match returns at least two groups:
\* the first is the snapshot up to the prompt line, the second the prompt
\* line, then one string per capture group of the prompt expression in the
\* order of the groups, each a part of the prompt line (under (#*)(#): all
\* but the last character, then the last character); the whole match
\* returned is the first group followed by the second.
C13_RetrieveGroups ==
    (CallReturned /\ op = "Retrieve" /\ ret.groups # << >>) =>
        /\ Len(ret.groups) >= 2
        /\ Len(ret.groups) = Len(result) \div 2 - 1
        /\ ret.groups[1] = Slice(data, 0, result[5])
        /\ ret.groups[2] = Slice(data, result[5], result[6])
        /\ ret.groups[2] # << >>
        /\ \A j \in 3..Len(ret.groups) :
               /\ result[5] <= result[2 * j + 1]
               /\ result[2 * j + 1] <= result[2 * j + 2]
               /\ result[2 * j + 2] <= result[6]
               /\ ret.groups[j] = Slice(data, result[2 * j + 1], result[2 * j + 2])
        /\ Len(ret.groups) = 4 =>
               /\ ret.groups[3] \o ret.groups[4] = ret.groups[2]
               /\ ret.groups[4] = <<"#">>
        /\ ret.full = ret.groups[1] \o ret.groups[2]

\* Retrieve has returned the body "\n", the prompt line "##" and the two
\* groups of (#*)(#).
C13_Witness ==
    /\ CallReturned /\ op = "Retrieve"
    /\ ret.full = <<NL, "#", "#">>
    /\ ret.groups = <<<<NL>>, <<"#", "#">>, <<"#">>, <<"#">>>>

\* A pass of Retrieve's loop: s.read has returned the buffer as its snapshot and
\* the retrieve matcher is applied to it (AckReturn or Relock; the steps of the
\* reader change its variables or the queue, AckRecv the queue, AckWait pc).
LoopPass ==
    /\ pc \in {"ack", "relock"}
    /\ pc' # "wait"
    /\ ch' = ch
    /\ UNCHANGED readerVars

\* C14: when the snapshot Retrieve takes begins with a prompt line buffer[0:q],
\* Retrieve returns on that pass with an empty body, the prompt line as second
\* group and as whole match, and the buffer keeps exactly the text after the
\* prompt line.
C14_PromptFirst ==
    [][(LoopPass /\ op = "Retrieve") =>
          \A q \in 1..Len(buffer) :
              PromptLine(retrieve, buffer, 0, q) =>
                  /\ pc' = "idle"
                  /\ Len(ret'.groups) >= 2
                  /\ ret'.groups[1] = << >>
                  /\ ret'.groups[2] = Slice(buffer, 0, q)
                  /\ ret'.full = Slice(buffer, 0, q)
                  /\ buffer' = Slice(buffer, q, Len(buffer))]_vars

\* The first Retrieve, on the snapshot "#\n#", has returned an empty body and
\* the prompt "#"; "\n#" is left in the buffer.
C14_Witness ==
    /\ CallReturned /\ op = "Retrieve" /\ calls = 1
    /\ data = <<"#", NL, "#">>
    /\ ret.groups = <<<< >>, <<"#">>>>
    /\ buffer = <<NL, "#">>

\* C15 as stated: an Expect call whose Matcher was built before a change of the
\* prompt ends its block with a prompt line of the prompt in force when the
\* Matcher was built.
C15_MatcherKeepsPrompt ==
    [][(MatchReturn /\ op = "Expect") =>
          FirstPromptLine(under, data', result'[5], result'[6])]_vars

\* What the code does where C15 expects the binding: the prompt is held by
\* the retrieve matcher of the session, which only SetPrompt and
\* SetPromptRegex replace, between calls and without a change of the buffer
\* or of the queue; a Matcher built by RegexMatcher or StrMatcher holds no
\* prompt, although the comment of StrMatcher says it matches the prompt:
\* every Expect call, whenever its Matcher was built, ends its block with the
\* first prompt line of the prompt in force during the call, and returns the
\* match of its Matcher on the body before it.
C15_PromptBoundInSession ==
    [][/\ retrieve' # retrieve =>
             /\ pc = "idle" /\ pc' = "idle"
             /\ buffer' = buffer
             /\ ch' = ch
       /\ (MatchReturn /\ op = "Expect") =>
             FirstPromptLine(retrieve, data', result'[5], result'[6])
       /\ ExpectSuccess =>
             ret'.groups[1] =
                 LET body == Slice(data, result[3], result[4])
                     user == Match(m, body)
                 IN Slice(body, user[1], user[2])]_vars

\* C15, the failing case: Expect has succeeded with a Matcher built while the
\* prompt was the literal # , the prompt set to \S+ in between: the block ends
\* with the line ## , a prompt line of \S+ and not of the literal # .
C15_Witness ==
    /\ CallReturned /\ op = "Expect"
    /\ under = RegexMatcher(retrieveRegex(Quoted("#")))
    /\ retrieve = RegexMatcher(retrieveRegex(defaultPromptRegex))
    /\ ret.groups = <<<<NL>>, <<"#", "#">>>>

\* C16: a send is one write to the sink and nothing else: SendBytes(b) writes
\* b, Send(s) the characters of s, SendLine(s) the characters of s and one
\* newline after them; the call returns the error the sink returned; the
\* buffer, the queue, the lock, the reader and a call in progress are left as
\* they were; and no state of a call in progress, the lock held or not, keeps
\* a send from completing.
C16_SendPassThrough ==
    /\ [](Len(written) < MaxSends =>
             ENABLED SendBytes /\ ENABLED Send /\ ENABLED SendLine)
    /\ [][(written' # written \/ sent' # sent) =>
             /\ Len(written') = Len(written) + 1
             /\ SubSeq(written', 1, Len(written)) = written
             /\ sent'.call \in {"SendBytes", "Send", "SendLine"}
             /\ sent'.call = "SendBytes" => written'[Len(written')] = sent'.arg
             /\ sent'.call = "Send" =>
                    /\ sent'.arg \in SendStrs
                    /\ written'[Len(written')] = <<sent'.arg>>
             /\ sent'.call = "SendLine" =>
                    /\ sent'.arg \in SendStrs
                    /\ written'[Len(written')] = <<sent'.arg, NL>>
             /\ sent'.err = sent'.werr
             /\ UNCHANGED <<session, readerVars, callerVars, history>>]_vars

\* SendLine has completed, with the sink's error, while a call held the lock.
C16_Witness ==
    /\ sent.call = "SendLine" /\ sent.during /\ sent.err = ErrWrite
    /\ written = <<<<"#", NL>>>>
    /\ lock /\ pc = "ack"

\* The first call of the session has returned a match and the read source
\* has ended: stream is the whole content.
FirstMatchOfEndedStream ==
    /\ CallReturned /\ calls = 1
    /\ ret.groups # << >>
    /\ rpc = "done"

\* What Retrieve returns when its snapshot is the whole content s.
OnWhole(s) == RetrieveReturn(Match(retrieve, s), s, Nil)

\* No beginning of s holds a prompt line that is not the first prompt line of
\* s: whatever part of s a snapshot holds, the retrieve matcher finds nothing
\* in it or what it finds in s.
StablePrompt(s) ==
    \A k \in 0..Len(s) :
        Match(retrieve, SubSeq(s, 1, k)) \in {<< >>, Match(retrieve, s)}

\* C17 as stated: for a content that ends in a prompt line, the whole match and
\* the prompt a successful Expect returns are those of the whole content,
\* however it was delivered.
C17_AnyChunking ==
    (/\ FirstMatchOfEndedStream /\ op = "Expect"
     /\ \E p \in 0..Len(stream) : PromptLine(retrieve, stream, p, Len(stream))) =>
        /\ ret.full = OnWhole(stream).full
        /\ ret.groups[Len(ret.groups)] = OnWhole(stream).groups[2]

\* C17: for a content of which no beginning holds another prompt line than the
\* first prompt line of the whole, the whole match and the prompt returned are
\* those of the whole content, however it was delivered, and for Retrieve so
\* are all groups; the error is nil, the error that ended the stream, or the
\* timeout error.
C17_ChunkingIndependent ==
    (FirstMatchOfEndedStream /\ StablePrompt(stream)) =>
        /\ ret.full = OnWhole(stream).full
        /\ ret.groups[Len(ret.groups)] = OnWhole(stream).groups[2]
        /\ op = "Retrieve" => ret.groups = OnWhole(stream).groups
        /\ ret.err \in {Nil, EOF, BadRead, ErrTimeout}

\* ExpectRegex has matched the content "\n#\n", delivered with io.EOF, and
\* returned the block "\n#" with io.EOF.
C17_Witness ==
    /\ FirstMatchOfEndedStream /\ op = "Expect"
    /\ stream = <<NL, "#", NL>>
    /\ StablePrompt(stream)
    /\ ret.full = <<NL, "#">>
    /\ Len(ret.groups) = 3
    /\ ret.err = EOF

\* C18: at most one completed read is without its notification, and exactly
\* while the reader stands between its Read and its post; the reader posts one
\* notification per step, the error of that read, nil included; and when it
\* comes to post, and so whenever the notification is queued or received,
\* every byte read so far is in the buffer or was consumed from it.
C18_OneNotificationPerRead ==
    [][/\ owed' \in {0, 1}
       /\ owed' = 1 <=> rpc' \in {"append", "post"}
       /\ rpc' = "post" => consumed' \o buffer' = stream'
       /\ Len(ch') > Len(ch) =>
             /\ owed = 1 /\ owed' = 0
             /\ ch' = Append(ch, rerr)
             /\ consumed \o buffer = stream
             /\ UNCHANGED <<buffer, stream>>]_vars

\* No call was made.  A first read without bytes and without error is notified
\* by nil; a second read has returned "#" with io.EOF, the byte is in the
\* buffer and the reader stands at its post.
C18_Witness ==
    /\ calls = 0
    /\ empties = 1 /\ ch = <<Nil>>
    /\ rpc = "post" /\ rerr = EOF /\ owed = 1
    /\ stream = <<"#">> /\ buffer = stream

\* C19: at every moment the buffer is what the reader has appended of the
\* bytes the reads returned, in the order of the reads, less what matches have
\* consumed from its beginning; a Read does not change the buffer, a read of
\* no bytes goes to its post without an append, and an append adds the bytes
\* of its read and no more.
C19_AppendsExactlyRead ==
    [][/\ IsPrefix(consumed', Appended')
       /\ buffer' = SubSeq(Appended', Len(consumed') + 1, Len(Appended'))
       /\ owed' > owed => buffer' = buffer
       /\ (owed' > owed /\ stream' = stream) => rpc' = "post"
       /\ (rpc = "append" /\ rpc' = "post") =>
             /\ Len(buffer') = Len(buffer) + Len(stream) - Len(Appended)
             /\ buffer' =
                    buffer \o SubSeq(stream, Len(Appended) + 1, Len(stream))]_vars

\* Retrieve has matched the snapshot "#\n" and kept "\n"; the reader, after a
\* read of no bytes, has appended the "#" of a later read.
C19_Witness ==
    /\ CallReturned /\ data = <<"#", NL>> /\ consumed = <<"#">>
    /\ empties = 1
    /\ rpc = "read"
    /\ stream = <<"#", NL, "#">>
    /\ buffer = <<NL, "#">>

\* C20: the reader posts at most one notification with a non-nil error, the
\* error of the read just completed, and is done exactly from then on: after
\* it the reader takes no step, nothing is added to the queue and nothing is
\* appended to the buffer.
C20_ReaderStopsAtError ==
    [][/\ failed' \in {0, 1}
       /\ failed' = 1 <=> rpc' = "done"
       /\ failed' > failed =>
             /\ rerr # Nil
             /\ ch' = Append(ch, rerr)
             /\ owed' = 0
       /\ failed = 1 =>
             /\ UNCHANGED readerVars
             /\ Len(ch') <= Len(ch)
             /\ consumed' \o buffer' = consumed \o buffer]_vars

\* The reader has posted io.EOF and is done; a call has received it and has
\* returned, the queue is empty.
C20_Witness ==
    /\ rpc = "done" /\ failed = 1
    /\ CallReturned /\ seen = EOF
    /\ ch = << >>
    /\ stream # << >>

\* C21: the notification queue has capacity floor(B / 16384), B being the
\* configured buffer size raised to the floor 16384, so at least 1; the queue
\* never holds more notifications than its capacity; and while it is full the
\* reader stays at its post with its notification: no step adds to, replaces
\* or reorders what is queued, the only change being a receive at the front.
C21_QueueBounded ==
    /\ [](/\ \E b \in BuffSizes :
                LET B == IF b < 16384 THEN 16384 ELSE b
                IN BuffSize = B /\ chanSize = B \div 16384
          /\ chanSize >= 1
          /\ Len(ch) <= chanSize)
    /\ [][Len(ch) = chanSize =>
             /\ ch' = ch \/ ch' = Tail(ch)
             /\ rpc = "post" => rpc' = "post" /\ rerr' = rerr]_vars

\* C21: a queue of capacity 2 is full and the reader stands at its post with
\* a third notification.
C21_Witness ==
    /\ chanSize = 2
    /\ Len(ch) = 2
    /\ rpc = "post"

\* C22: a notification the reader attempts to post is eventually enqueued
\* once the queue has room for it or a call in progress stands at its drain:
\* the reader then leaves its post.
C22_PostedWhenDrained ==
    (rpc = "post" /\ (Len(ch) < chanSize \/ pc = "ack")) ~> (rpc # "post")

\* C22: the reader stands at its post with the terminal error, the queue is
\* full and a call in progress stands at its drain.
C22_Witness ==
    /\ rpc = "post"
    /\ rerr = EOF
    /\ Len(ch) = chanSize
    /\ pc = "ack"

\* C22 as stated: every notification the reader attempts to post is
\* eventually enqueued, whatever the caller does afterwards.
C22_EveryPostEnqueued == (rpc = "post") ~> (rpc # "post")

\* C23: lock discipline.  The caller holds the lock exactly while a call
\* stands in Retrieve outside its wait: not before the entry, not while it
\* waits on the queue or for the lock after the wait, and not after Retrieve
\* has returned, on any return path, Expect's matching of the retrieved text
\* included.  The buffer changes only in a step of the reader taken while the
\* caller does not hold the lock, or in a step of the call that holds the
\* lock or takes it free after the wait, and that step releases it; the call
\* reads the buffer only in such steps; the reader never writes while the
\* caller holds the lock.
C23_LockDiscipline ==
    /\ [](/\ pc = "ack" => lock
          /\ pc \in {"idle", "wait", "relock", "second"} => ~lock)
    /\ [][/\ (buffer' # buffer) =>
                  \/ rpc = "append" /\ rpc' = "post" /\ ~lock /\ ~lock'
                  \/ pc = "ack" /\ lock /\ ~lock'
                  \/ pc = "relock" /\ ~lock /\ ~lock' /\ rpc' = rpc
          /\ (rpc = "append" /\ rpc' # "append") => ~lock
          /\ (pc \in {"ack", "relock"} /\ data' # data) =>
                  (IF pc = "ack" THEN lock ELSE ~lock) /\ data' = buffer
          /\ (pc \in {"ack", "relock"} /\ pc' \in {"idle", "second"}) => ~lock']_vars

\* C23: an Expect call waits on the queue with the lock released and the
\* reader has appended to the buffer since the call's snapshot.
C23_Witness ==
    /\ op = "Expect"
    /\ pc = "wait"
    /\ ~lock
    /\ buffer # data

\* C23 as stated: Expect holds the lock from its entry to its return except
\* while it is blocked in the wait.
C23_ExpectLockedUntilReturn ==
    (op = "Expect" /\ pc \notin {"idle", "wait", "relock"}) => lock

\* The reader cannot take its next step: it waits for the lock or for a free
\* place in the queue.
ReaderBlocked ==
    \/ rpc = "append" /\ lock
    \/ rpc = "post" /\ Len(ch) = chanSize

\* The call in progress can only go on when the reader delivers: it is
\* blocked in its wait on an empty queue, or it repeats the loop of Retrieve
\* with the budget used up, an empty queue and no match in the buffer.
CallAwaitsReader ==
    /\ ch = << >>
    /\ \/ pc = "wait"
       \/ /\ pc = "ack"
          /\ timeSpent >= Timeout
          /\ Match(retrieve, buffer) = << >>

\* C24 as claimed: in no reachable state does the reader wait for the lock or
\* for queue space while the call in progress waits for the reader.
C24_NoStandoff == ~(ReaderBlocked /\ CallAwaitsReader)

\* C24, the blocking part alone: a call blocked in its wait never faces a
\* blocked reader.
C24_NoBlockedPair == ~(ReaderBlocked /\ pc = "wait" /\ ch = << >>)

\* C25: a call returns the timeout error only after the timer of one of its
\* waits has fired, and what it returns with it is decided by the snapshot
\* taken after that wait: when the snapshot holds no match, Retrieve returns
\* no match with the timeout error and leaves the buffer as it is, without a
\* match; when the reader has appended the bytes that complete a match, posted
\* or not, Retrieve returns that match together with the timeout error.
\* Expect passes the timeout error on unchanged, with or without a match.
C25_TimeoutAfterSnapshot ==
    [][/\ (/\ pc \in {"ack", "relock"}
           /\ pc' \in {"idle", "second"}
           /\ err' = ErrTimeout) =>
             /\ pc = "relock"
             /\ expired
             /\ ret'.err = ErrTimeout
             /\ IF Match(retrieve, buffer) = << >>
                THEN /\ ret'.groups = << >>
                     /\ buffer' = buffer
                     /\ Match(retrieve, buffer') = << >>
                ELSE /\ Len(ret'.groups) >= 2
                     /\ ret'.full # << >>
       /\ (pc = "second" /\ pc' = "idle" /\ ret.err = ErrTimeout) =>
             ret'.err = ErrTimeout]_vars

\* C25: a call has returned a match together with the timeout error while
\* the reader, having appended, has not yet posted its notification.
C25_Witness ==
    /\ CallReturned
    /\ ret.err = ErrTimeout
    /\ ret.groups # << >>
    /\ rpc = "post"
    /\ ch = << >>

\* C25 as stated: a call that returns the timeout error returns no match.
C25_TimeoutMeansNoMatch ==
    (CallReturned /\ ret.err = ErrTimeout) => ret.groups = << >>

\* C26: the drain receives without blocking, with the lock held, keeps the
\* error of the notification it received last, and ends only on an empty
\* queue; a wait keeps the error of the notification that ended it.  Once the
\* call has received a notification with a non-nil error, in the drain or in
\* the wait, that error is the call's error, the queue is empty, the call is
\* not waiting, and its next step is its return from Retrieve, with that error
\* or, without a match, its normalization: no further receive and no wait.
C26_ErrorIsTerminal ==
    [][/\ (pc = "ack" /\ Len(ch') < Len(ch)) =>
             /\ ch' = Tail(ch)
             /\ err' = Head(ch)
             /\ reads' = reads + 1
             /\ pc' = "ack"
             /\ lock'
       /\ (pc = "ack" /\ pc' # "ack") => ch = << >>
       /\ (pc = "wait" /\ Len(ch') < Len(ch)) =>
             /\ ch' = Tail(ch)
             /\ err' = Head(ch)
             /\ pc' = "relock"
       /\ (seen # Nil /\ pc \in {"ack", "wait", "relock"}) =>
             /\ pc # "wait"
             /\ err = seen
             /\ ch = << >>
             /\ \/ UNCHANGED <<pc, ch, err, reads, lock>>
                \/ /\ pc' \in {"idle", "second"}
                   /\ ch' = ch
                   /\ ret'.err = IF ret'.groups = << >> THEN NoMatchErr(seen) ELSE seen]_vars

\* C26: one drain has received two notifications, the last with the
\* end-of-stream error, and the call is about to leave its loop.
C26_Witness ==
    /\ pc = "ack"
    /\ reads = 2
    /\ err = EOF
    /\ seen = EOF
    /\ ch = << >>

\* The call in progress is in the first pass of Retrieve: s.read(0).
FirstPass == pc = "ack" /\ timeout = 0 /\ timeSpent = 0

\* C27: the first pass of a call never waits: from its entry the call drains
\* the queue, the buffer unchanged, and then either returns or goes on to its
\* next pass; and when the buffer holds a match at that point the call
\* returns that match, and it does so eventually, whatever the read source
\* does and whether or not a notification is queued.
C27_FirstPassNoWait ==
    /\ [][FirstPass =>
             /\ pc' # "wait"
             /\ pc' = "ack" => buffer' = buffer
             /\ Match(retrieve, buffer) # << >> =>
                   \/ FirstPass'
                   \/ LET res == Match(retrieve, buffer)
                      IN /\ pc' \in {"idle", "second"}
                         /\ ret'.full = Slice(buffer, res[1], res[2])
                         /\ Len(ret'.groups) >= 2]_vars
    /\ (FirstPass /\ Match(retrieve, buffer) # << >>)
          ~> (CallReturned /\ Len(ret.groups) >= 2)

\* C27: a second call is in its first pass, about to snapshot; the buffer
\* holds a match in what the first call left over, the queue is empty and the
\* reader is blocked in its Read.
C27_Witness ==
    /\ FirstPass
    /\ calls = 2
    /\ consumed # << >>
    /\ Match(retrieve, buffer) # << >>
    /\ ch = << >>
    /\ reads = 0
    /\ rpc = "read"

\* C28 as claimed: a call of Retrieve whose match has a capture group that
\* took no part (offsets -1, -1) returns that match, the group lists as long
\* as the expression has groups, with the empty string at that group's
\* position.
C28_UnmatchedGroupEmpty ==
    (/\ op = "Retrieve"
     /\ pc \in {"idle", "panic"}
     /\ Len(result) >= 6
     /\ Panics(result)) =>
        /\ pc = "idle"
        /\ ret.full = Slice(data, result[1], result[2])
        /\ Len(ret.groups) = Len(result) \div 2 - 1
        /\ \A j \in 2..(Len(result) \div 2) :
              ret.groups[j - 1] = IF result[2 * j - 1] < 0 THEN << >>
                                  ELSE Slice(data, result[2 * j - 1], result[2 * j])

\* C28: with all its groups matched the same prompt expression gives a call
\* that returns them.
C28_AllGroupsMatched ==
    (/\ op = "Retrieve"
     /\ pc \in {"idle", "panic"}
     /\ Len(result) >= 6
     /\ ~Panics(result)) =>
        /\ pc = "idle"
        /\ Len(ret.groups) = Len(result) \div 2 - 1

\* C29: once a call has received the terminal error, the reader has ended
\* and the buffer holds every byte the source delivered that no match has
\* consumed; the snapshot Retrieve then evaluates is that buffer, and when
\* Retrieve returns no match the retrieve expression does not match it.  When
\* Expect returns NoMatches after end-of-stream, either Retrieve found no
\* match in that snapshot or the caller's matcher does not match the body of
\* the block Retrieve returned.
C29_CompleteSnapshot ==
    /\ []((seen # Nil /\ pc \in {"ack", "relock", "second"}) =>
             /\ rpc = "done"
             /\ ch = << >>
             /\ consumed \o buffer = stream)
    /\ [][/\ (seen # Nil /\ pc \in {"ack", "relock"} /\ pc' \in {"idle", "second"}) =>
                /\ data' = buffer
                /\ consumed \o data' = stream
                /\ ret'.groups = << >> => Match(retrieve, data') = << >>
          /\ (seen = EOF /\ pc = "second" /\ pc' = "idle" /\ ret'.err = ErrNoMatches) =>
                \/ Len(ret.groups) < 2 /\ Match(retrieve, data) = << >>
                \/ Len(ret.groups) >= 2 /\ Match(m, ret.groups[1]) = << >>]_vars

\* C29: a call that received the end-of-stream notification, the stream
\* delivered in more than one read and partly consumed by an earlier call, has
\* returned NoMatches.
C29_Witness ==
    /\ CallReturned
    /\ calls = 2
    /\ seen = EOF
    /\ ret.err = ErrNoMatches
    /\ consumed # << >>
    /\ consumed \o data = stream
    /\ data # << >>

\* C29 as stated: when Expect returns NoMatches after end-of-stream, its
\* matcher does not match the complete remaining stream.
C29_NoMatchOnRemainingStream ==
    [][(seen = EOF /\ pc = "second" /\ pc' = "idle" /\ ret'.err = ErrNoMatches) =>
          Match(m, data) = << >>]_vars

\* A call is in progress after an earlier call has received the terminal
\* error: the error was posted, is not queued and was not received by this
\* call.
LaterCall ==
    /\ pc \in {"ack", "wait", "relock", "second"}
    /\ failed >= 1
    /\ ch = << >>
    /\ seen = Nil

\* C30: a call made after the terminal error was received by an earlier call
\* finds the queue empty to its end and receives nothing.  Its Retrieve
\* returns the match of the leftover buffer on the first pass, with a nil
\* error; without a match in the buffer it waits once, for the whole
\* configured timeout, and returns the timeout error with no match.  Expect
\* then returns the timeout error as it is, or applies the caller's matcher to
\* the body retrieved and returns the match with a nil error or, on a
\* mismatch, NoMatches at once; the read error is never returned again.
C30_TerminalConsumedOnce ==
    [][LaterCall =>
         /\ LaterCall' \/ (pc' = "idle" /\ ch' = << >> /\ seen' = Nil)
         /\ (pc \in {"ack", "relock"} /\ pc' \in {"idle", "second"}) =>
               IF Match(retrieve, buffer) # << >>
               THEN /\ FirstPass
                    /\ Len(ret'.groups) >= 2
                    /\ ret'.err = Nil
               ELSE /\ pc = "relock"
                    /\ expired
                    /\ waited = Timeout
                    /\ ret' = NoMatchReturn(ErrTimeout)
         /\ (pc = "second") =>
               IF Len(ret.groups) < 2
               THEN ret' = NoMatchReturn(ErrTimeout)
               ELSE IF Match(m, ret.groups[1]) # << >>
                    THEN ret'.groups # << >> /\ ret'.err = Nil
                    ELSE ret' = NoMatchReturn(ErrNoMatches)]_vars

\* C30: a second call, made after the first received the end-of-stream
\* notification, has waited for the whole timeout and returned the timeout
\* error.
C30_Witness ==
    /\ CallReturned
    /\ calls = 2
    /\ failed = 1
    /\ seen = Nil
    /\ ch = << >>
    /\ expired
    /\ ret = NoMatchReturn(ErrTimeout)

\* C30 as stated: a call made after the terminal error was received either
\* succeeds or returns the timeout error.
C30_LaterCallTimesOut ==
    (/\ CallReturned
     /\ failed >= 1
     /\ ch = << >>
     /\ seen = Nil
     /\ ret.groups = << >>) => ret.err = ErrTimeout

\* C31: the match of the retrieve expression always starts at offset 0 of
\* the snapshot, so nothing precedes it: a successful Retrieve returns
\* snapshot[0:matchEnd] as the whole match and leaves snapshot[matchEnd:] in
\* the buffer.  When the caller's matcher matches the retrieved body from an
\* offset s > 0, or from 0, a successful Expect returns the whole match of
\* Retrieve, the bytes before s included, the groups of the caller's match
\* followed by the prompt groups, and leaves the buffer as Retrieve left it.
C31_WholeBlockReturned ==
    [][/\ (/\ pc \in {"ack", "relock"}
           /\ pc' \in {"idle", "second"}
           /\ Len(result') >= 6) =>
             /\ result'[1] = 0
             /\ ret'.full = Slice(data', 0, result'[2])
             /\ buffer' = Slice(data', result'[2], Len(data'))
       /\ (pc = "second" /\ pc' = "idle" /\ ret'.groups # << >>) =>
             LET res == Match(m, ret.groups[1])
             IN /\ ret'.full = ret.full
                /\ ret'.full = Slice(data, 0, Len(ret.full))
                /\ ret'.groups = processResults(res, ret.groups[1]) \o Tail(ret.groups)
                /\ ret'.groups[1] = Slice(data, res[1], res[2])
                /\ buffer' = buffer]_vars

\* C31: a successful Expect whose matcher matched the body from an offset
\* s > 0: the match of the caller's matcher does not begin the whole match
\* returned, and the buffer holds what follows the prompt.
C31_Witness ==
    /\ CallReturned
    /\ op = "Expect"
    /\ Len(ret.groups) >= 2
    /\ ~IsPrefix(ret.groups[1], ret.full)
    /\ IsPrefix(ret.full, data)
    /\ ret.full \o buffer = data

\* C31 as stated: when the match of the caller's matcher starts at an offset
\* s > 0 of the snapshot, the whole match returned starts at s.
C31_PrefixDiscarded ==
    [][(/\ pc = "second"
        /\ pc' = "idle"
        /\ ret'.groups # << >>
        /\ Match(m, ret.groups[1])[1] > 0) =>
          \E e \in 0..Len(data) :
             ret'.full = Slice(data, Match(m, ret.groups[1])[1], e)]_vars

\* C32: when Retrieve returns without a match, with NoMatches, the timeout
\* error or a read error, the buffer and what has been consumed are as they
\* were when the call took its last snapshot, and that snapshot is the buffer;
\* Expect, returning after such a Retrieve, changes nothing either; and while
\* no call is in progress the buffer only grows at its end, so the data is
\* there for the next call.
C32_FailureKeepsBuffer ==
    [][/\ (/\ pc \in {"ack", "relock"}
           /\ pc' \in {"idle", "second"}
           /\ ret'.groups = << >>) =>
             /\ buffer' = buffer
             /\ data' = buffer
             /\ consumed' = consumed
             /\ ret'.full = << >>
             /\ ret'.err \in {ErrNoMatches, ErrTimeout, BadRead}
       /\ (pc = "second" /\ ret.groups = << >>) =>
             /\ IsPrefix(buffer, buffer')
             /\ consumed' = consumed
             /\ pc' = "idle" => (ret' = ret /\ buffer' = buffer)
       /\ (pc = "idle") => IsPrefix(buffer, buffer')]_vars

\* C32: a call has returned the timeout error without a match and the
\* buffer holds, unconsumed, the data of the call's last snapshot.
C32_Witness ==
    /\ CallReturned
    /\ ret = NoMatchReturn(ErrTimeout)
    /\ data # << >>
    /\ buffer = data
    /\ consumed = << >>

\* C33: the bytes the reader has appended are those consumed followed by
\* those in the buffer.  When Expect's matcher does not match the body
\* Retrieve returned, the block, body and prompt, is the end of what has been
\* consumed and is not in the buffer; Expect returns no whole match and no
\* groups and leaves the buffer and the consumed bytes as they are.
C33_MismatchConsumesBlock ==
    /\ [](consumed \o buffer = Appended)
    /\ [][(/\ pc = "second"
            /\ Len(ret.groups) >= 2
            /\ Match(m, ret.groups[1]) = << >>) =>
              /\ ret.full = ret.groups[1] \o ret.groups[2]
              /\ Len(ret.full) <= Len(consumed)
              /\ ret.full = Slice(consumed, Len(consumed) - Len(ret.full), Len(consumed))
              /\ pc' = "idle" =>
                    /\ ret' = NoMatchReturn(NoMatchErr(ret.err))
                    /\ buffer' = buffer
                    /\ consumed' = consumed
                    /\ returned' = returned
                    /\ dropped']_vars

\* C33: after an Expect whose matcher did not match the retrieved block, a
\* second call is in progress on a buffer that holds what followed the block.
C33_Witness ==
    /\ dropped
    /\ calls = 2
    /\ pc = "ack"
    /\ returned = << >>
    /\ consumed # << >>
    /\ buffer # << >>
    /\ consumed \o buffer = stream

====
